---- MODULE Spec2Model ----
(***************************************************************************)
(* A model of the research-assistant application: the paper store, the     *)
(* context assembler (getContextFromSelectedPapers), the generation        *)
(* orchestrator (handleGenerateSection) and the two chat services          *)
(* (services/gemini.ts, services/openrouter.ts) with the chat handlers of  *)
(* the App component.                                                      *)
(***************************************************************************)
EXTENDS Integers, Sequences, FiniteSets, TLC

\* ---------------------------------------------------------------- bounds
MaxSel == 3
MaxPage == 1
MaxBudget == 31
MaxInFlight == 2
MaxTurns == 2
MaxFetches == 1

\* ------------------------------------------------------------ vocabulary
\* `undefined` for an optional numeric field of a Paper (citationCount, year)
Missing == -1

PaperIds == {"p1", "p2", "p3"}

\* A Paper: the text fields are kept by their whitespace-delimited word
\* counts (authors: number of one-word names; 0 = empty list; url: present
\* or not; a count of 0 is the empty / absent string).
MkPaper(id, cites, yr, tw, au, vw, hasUrl, aw) ==
  [paperId |-> id, citationCount |-> cites, year |-> yr, titleWords |-> tw,
   authors |-> au, venueWords |-> vw, url |-> hasUrl, abstractWords |-> aw]

\* The papers the search service can return. Two entries may carry the same
\* paperId (a later fetch returning changed data for the same paper).
PaperPool ==
  { MkPaper("p1", 10, 2020, 1, 1, 1, TRUE, 1),
    MkPaper("p1", 50, 2020, 1, 2, 0, FALSE, 1),
    MkPaper("p2", 50, 2019, 1, 1, 1, TRUE, 4),
    MkPaper("p2", 0, Missing, 1, 0, 1, TRUE, 1),
    MkPaper("p3", Missing, Missing, 0, 0, 0, FALSE, 0),
    MkPaper("p3", 0, 2021, 2, 1, 1, TRUE, 1) }

SeqsUpTo(S, n) == UNION {[1..k -> S] : k \in 0..n}

\* Every Map<string, Paper> keyed by the paper's own id.
CacheMaps ==
  UNION { {f \in [S -> PaperPool] : \A id \in S : f[id].paperId = id}
          : S \in SUBSET PaperIds }

VARIABLES
  selectedPaperIds,   \* string[] (persisted)
  papers,             \* Paper[]: the page on display
  cachedPapers,       \* Map<string, Paper>
  wordBudget,         \* MAX_CONTEXT_LENGTH_WORDS
  context,            \* the value returned by getContextFromSelectedPapers
  ctxPc,              \* "idle" before the call, "done" after it
  researchTopic,      \* string (persisted)
  apiKeys,            \* {semanticScholar, gemini, openRouter}
  generationProvider, \* ApiProvider
  selectedGeminiModel,
  selectedOpenRouterModel,
  generationLoading,
  introContent, relatedWorksContent,
  introGrounding, relatedWorksGrounding,
  introError, relatedWorksError,
  lastAlert,          \* the text of the last alert() shown, "null" before any
  genPending,         \* generation requests awaiting the provider's answer
  ai, activeApiKey,   \* services/gemini.ts: the client and the key it was built with
  geminiChatInstance, \* services/gemini.ts: index into chats, 0 for null
  chatApiKey, chatSystemInstruction, chatModelUsed,
  chats,              \* the live Chat objects, by handle (the turn that created it)
  chatMessages,       \* the transcript
  chatProvider, chatLoading, chatError,
  geminiChatHistory, openRouterChatHistory,
  chatPending,        \* chat turns awaiting the provider's answer
  chatReturn,         \* what the last settled chat call returned or threw
  turnStored,         \* per provider: the history its last successful turn stored
  turnNo,             \* number of chat messages sent so far
  searchLoading, searchError,
  currentPage, totalPapers,   \* pagination cursor (persisted)
  selectingAllPapersLoading,
  fetchPending,       \* search requests awaiting the paper index's answer
  toggled,            \* the id of the toggles made in a row: <<>>, <<id>>, <<id, id>>
  selBefore           \* the selection before those toggles

fetchVars == <<searchLoading, searchError, currentPage, totalPapers,
               selectingAllPapersLoading, fetchPending>>
toggleVars == <<toggled, selBefore>>
storeVars == <<selectedPaperIds, papers, cachedPapers, wordBudget, researchTopic,
               fetchVars, toggleVars>>
ctxVars == <<context, ctxPc>>
cfgVars == <<apiKeys, generationProvider, selectedGeminiModel, selectedOpenRouterModel>>
slotVars == <<introContent, relatedWorksContent, introGrounding,
              relatedWorksGrounding, introError, relatedWorksError>>
genVars == <<generationLoading, slotVars, lastAlert, genPending>>
aiVars == <<ai, activeApiKey>>
sessionVars == <<geminiChatInstance, chatApiKey, chatSystemInstruction,
                 chatModelUsed, chats>>
historyVars == <<geminiChatHistory, openRouterChatHistory, turnStored>>
chatUiVars == <<chatMessages, chatProvider, chatLoading, chatError>>
callVars == <<chatPending, chatReturn, turnNo>>
chatVars == <<sessionVars, historyVars, chatUiVars, callVars>>

vars == <<storeVars, ctxVars, cfgVars, genVars, aiVars, chatVars>>

\* --------------------------------------------- getContextFromSelectedPapers
Max(a, b) == IF a >= b THEN a ELSE b

\* new Set(array): the distinct elements in order of first occurrence
RECURSIVE NewSet(_)
NewSet(arr) ==
  IF arr = <<>> THEN <<>>
  ELSE LET r == NewSet(SubSeq(arr, 1, Len(arr) - 1))
           x == arr[Len(arr)]
       IN IF \E i \in 1..Len(r) : r[i] = x THEN r ELSE Append(r, x)

\* ids.forEach(id => { const p = cache.get(id); if (p) out.push(p) })
RECURSIVE ResolveIds(_, _)
ResolveIds(ids, cache) ==
  IF ids = <<>> THEN <<>>
  ELSE LET rest == ResolveIds(Tail(ids), cache)
       IN IF Head(ids) \in DOMAIN cache THEN <<cache[Head(ids)]>> \o rest ELSE rest

PageIds(page) == [i \in 1..Len(page) |-> page[i].paperId]

PapersToConsiderFallback(sel, page, cache) ==
  LET fromSelection == ResolveIds(NewSet(sel), cache)
  IN IF Len(fromSelection) > 0
     THEN fromSelection
     ELSE ResolveIds(PageIds(page), cache)

PapersToConsider(sel, page, cache) ==
  LET currentSelectedPaperIdSet == NewSet(sel)
  IN IF Len(currentSelectedPaperIdSet) > 0
     THEN ResolveIds(currentSelectedPaperIdSet, cache)
     ELSE ResolveIds(PageIds(page), cache)

\* x ?? 0
OrZero(x) == IF x = Missing THEN 0 ELSE x

ComparePapersAscending(a, b) ==
  LET citationDiff == OrZero(a.citationCount) - OrZero(b.citationCount)
  IN IF citationDiff # 0 THEN citationDiff ELSE OrZero(a.year) - OrZero(b.year)

\* the comparator handed to sort: negative when a goes first
ComparePapers(a, b) ==
  LET citationDiff == OrZero(b.citationCount) - OrZero(a.citationCount)
  IN IF citationDiff # 0 THEN citationDiff ELSE OrZero(b.year) - OrZero(a.year)

\* Array.prototype.sort is stable: p goes before the first element that the
\* comparator puts strictly after it.
RECURSIVE InsertSorted(_, _)
InsertSorted(sorted, p) ==
  IF sorted = <<>> THEN <<p>>
  ELSE IF ComparePapers(Head(sorted), p) > 0
       THEN <<p>> \o sorted
       ELSE <<Head(sorted)>> \o InsertSorted(Tail(sorted), p)

RECURSIVE SortPapers(_)
SortPapers(ps) ==
  IF ps = <<>> THEN <<>>
  ELSE InsertSorted(SortPapers(SubSeq(ps, 1, Len(ps) - 1)), ps[Len(ps)])

\* The whitespace-delimited words of the rendered block
\* "[n] Title: T\nAuthors: A\nYear: Y\nVenue: V\nURL: U\nAbstract: X\n\n":
\* the label, six field names, and each field or its "N/A".
BlockWords(p) ==
  1 + 1 + p.titleWords
    + 1 + Max(p.authors, 1)
    + 1 + 1
    + 1 + Max(p.venueWords, 1)
    + 1 + 1
    + 1 + Max(p.abstractWords, 1)

\* paperInfo.split(/\s+/).length: the block ends in "\n\n", so the split
\* yields one empty string after the last word.
SplitLength(p) == BlockWords(p) + 1

FitsBudgetNoBlock(wordCount, currentPaperWordCount, budget) ==
  wordCount <= budget

FitsBudget(wordCount, currentPaperWordCount, budget) ==
  wordCount + currentPaperWordCount <= budget

\* a block of the returned text: its label, its paper and its words
Block(paperCounter, p) ==
  [label |-> paperCounter, paperId |-> p.paperId, words |-> BlockWords(p)]

RECURSIVE ContextLoopSkip(_, _, _, _)
ContextLoopSkip(ps, wordCount, paperCounter, budget) ==
  IF ps = <<>> THEN <<>>
  ELSE LET p == Head(ps)
           currentPaperWordCount == SplitLength(p)
       IN IF FitsBudget(wordCount, currentPaperWordCount, budget)
          THEN <<Block(paperCounter, p)>> \o
               ContextLoopSkip(Tail(ps), wordCount + currentPaperWordCount,
                               paperCounter + 1, budget)
          ELSE ContextLoopSkip(Tail(ps), wordCount, paperCounter + 1, budget)

\* the for loop: append while the block fits, break at the first that does not
RECURSIVE ContextLoop(_, _, _, _)
ContextLoop(ps, wordCount, paperCounter, budget) ==
  IF ps = <<>> THEN <<>>
  ELSE LET p == Head(ps)
           currentPaperWordCount == SplitLength(p)
       IN IF FitsBudget(wordCount, currentPaperWordCount, budget)
          THEN <<Block(paperCounter, p)>> \o
               ContextLoop(Tail(ps), wordCount + currentPaperWordCount,
                           paperCounter + 1, budget)
          ELSE <<>>

\* context.trim() only drops the trailing blank line: the blocks are kept.
getContextFromSelectedPapers(sel, page, cache, budget) ==
  ContextLoop(SortPapers(PapersToConsider(sel, page, cache)), 0, 1, budget)

\* ------------------------------------------------- the context assembler
\* the papers a page on display can hold (one per id; the cache may hold a
\* different version of the same paper)
PagePool ==
  { MkPaper("p1", 10, 2020, 1, 1, 1, TRUE, 1),
    MkPaper("p3", 0, 2021, 2, 1, 1, TRUE, 1) }

\* ------------------------------------------------------ start-up defaults
GEMINI == "Gemini"
OPENROUTER == "OpenRouter"
Providers == {GEMINI, OPENROUTER}

\* null (an error field, a module-level handle) and undefined (grounding)
Null == "null"
Undefined == "undefined"

CtxIdle == context = <<>> /\ ctxPc = "idle"

\* no search made yet, first page
FetchIdle ==
  /\ searchLoading = FALSE /\ searchError = Null
  /\ currentPage = 1 /\ totalPapers = 0
  /\ selectingAllPapersLoading = FALSE
  /\ fetchPending = <<>>
  /\ toggled = <<>> /\ selBefore = <<>>

\* useLocalStorage defaults: no key, the first available model
CfgDefault ==
  /\ apiKeys = [semanticScholar |-> "", gemini |-> "", openRouter |-> ""]
  /\ generationProvider = GEMINI
  /\ selectedGeminiModel = "m1"
  /\ selectedOpenRouterModel = "m1"

GenIdle ==
  /\ generationLoading = FALSE
  /\ introContent = "" /\ relatedWorksContent = ""
  /\ introGrounding = Undefined /\ relatedWorksGrounding = Undefined
  /\ introError = Null /\ relatedWorksError = Null
  /\ lastAlert = Null
  /\ genPending = <<>>

AiNone == ai = FALSE /\ activeApiKey = Null

NoReturn == [kind |-> "none"]

ChatIdle ==
  /\ geminiChatInstance = 0
  /\ chatApiKey = Null /\ chatSystemInstruction = Null /\ chatModelUsed = Null
  /\ chats = <<>>
  /\ chatMessages = <<>>
  /\ chatProvider = GEMINI
  /\ chatLoading = FALSE
  /\ chatError = Null
  /\ geminiChatHistory = <<>> /\ openRouterChatHistory = <<>>
  /\ turnStored = [p \in Providers |-> <<>>]
  /\ chatPending = <<>>
  /\ chatReturn = NoReturn
  /\ turnNo = 0

InitCtx ==
  /\ selectedPaperIds \in SeqsUpTo(PaperIds, MaxSel)
  /\ papers \in SeqsUpTo(PagePool, MaxPage)
  /\ cachedPapers \in CacheMaps
  /\ wordBudget \in 0..MaxBudget
  /\ FetchIdle
  /\ CtxIdle
  /\ researchTopic = ""
  /\ CfgDefault
  /\ GenIdle
  /\ AiNone
  /\ ChatIdle

GetContext ==
  /\ ctxPc = "idle"
  /\ context' = getContextFromSelectedPapers(selectedPaperIds, papers,
                                             cachedPapers, wordBudget)
  /\ ctxPc' = "done"
  /\ UNCHANGED <<storeVars, cfgVars, genVars, aiVars, chatVars>>

NextCtx == GetContext

SpecCtx == InitCtx /\ [][NextCtx]_vars

\* ------------------------------------------------ claims on the assembler
Range(f) == {f[i] : i \in DOMAIN f}

RECURSIVE SumWords(_)
SumWords(blocks) ==
  IF blocks = <<>> THEN 0 ELSE Head(blocks).words + SumWords(Tail(blocks))

RECURSIVE SumSplit(_)
SumSplit(ps) ==
  IF ps = <<>> THEN 0 ELSE SplitLength(Head(ps)) + SumSplit(Tail(ps))

Candidates == PapersToConsider(selectedPaperIds, papers, cachedPapers)

CitationsOf(b) == OrZero(cachedPapers[b.paperId].citationCount)
YearOf(b) == OrZero(cachedPapers[b.paperId].year)

\* C1: the emitted papers are in non-increasing citation-count order
\* (missing = 0), and papers with equal citation count are in non-increasing
\* year order (missing = 0).
C1_RankedOrder ==
  ctxPc = "done" =>
    \A i, j \in 1..Len(context) :
      i < j =>
        \/ CitationsOf(context[i]) > CitationsOf(context[j])
        \/ /\ CitationsOf(context[i]) = CitationsOf(context[j])
           /\ YearOf(context[i]) >= YearOf(context[j])

\* P1(citations 10, year 2020) and P2(citations 50, year 2019), selected in
\* the order P1, P2, come out as P2 then P1.
C1_Witness ==
  /\ ctxPc = "done"
  /\ selectedPaperIds = <<"p1", "p2">>
  /\ Len(context) = 2
  /\ context[1].paperId = "p2" /\ CitationsOf(context[1]) = 50
  /\ context[2].paperId = "p1" /\ CitationsOf(context[2]) = 10

\* C2: the words of the returned blocks never add up to more than the
\* budget; the result is empty when the budget is 0, when there is no
\* candidate, and when the first-ranked block alone exceeds the budget.
C2_WithinBudget ==
  ctxPc = "done" =>
    /\ SumWords(context) <= wordBudget
    /\ (wordBudget = 0 => context = <<>>)
    /\ (Candidates = <<>> => context = <<>>)
    /\ (Candidates # <<>> /\ BlockWords(SortPapers(Candidates)[1]) > wordBudget
          => context = <<>>)

\* a non-empty result that the budget cut short
C2_Witness ==
  /\ ctxPc = "done"
  /\ Len(context) >= 1
  /\ Len(context) < Len(Candidates)
  /\ wordBudget > 0

\* C3: the labels of the returned blocks are 1, 2, ..., k in emitted order.
C3_LabelsSequential ==
  ctxPc = "done" => \A i \in 1..Len(context) : context[i].label = i

\* two blocks emitted although the first selected id misses the cache and
\* a lower-ranked candidate was dropped for the budget
C3_Witness ==
  /\ ctxPc = "done"
  /\ Len(selectedPaperIds) >= 1
  /\ selectedPaperIds[1] \notin DOMAIN cachedPapers
  /\ Len(context) = 2
  /\ context[2].label = 2

ExpectedIds ==
  IF selectedPaperIds # <<>>
  THEN Range(selectedPaperIds) \cap DOMAIN cachedPapers
  ELSE {papers[i].paperId : i \in 1..Len(papers)} \cap DOMAIN cachedPapers

\* C4: the candidates are the selected ids found in the cache whenever the
\* selection is non-empty, and the ids of the page on display found in the
\* cache only when it is empty; each is rendered from its cache entry.
C4_CandidateSource ==
  ctxPc = "done" =>
    /\ {context[i].paperId : i \in 1..Len(context)} \subseteq ExpectedIds
    /\ \A i \in 1..Len(context) :
         context[i].words = BlockWords(cachedPapers[context[i].paperId])
    /\ (SumSplit(Candidates) <= wordBudget =>
          /\ {context[i].paperId : i \in 1..Len(context)} = ExpectedIds
          /\ Len(context) = Len(Candidates))
    /\ (/\ selectedPaperIds = <<>>
        /\ Len(papers) = 1
        /\ papers[1].paperId \in DOMAIN cachedPapers
        /\ SplitLength(cachedPapers[papers[1].paperId]) <= wordBudget
        => /\ Len(context) = 1
           /\ context[1].label = 1
           /\ context[1].paperId = papers[1].paperId)

\* empty selection, page = [P3], cache holds P3 (and others): exactly P3 as [1]
C4_Witness ==
  /\ ctxPc = "done"
  /\ selectedPaperIds = <<>>
  /\ Len(papers) = 1 /\ papers[1].paperId = "p3"
  /\ DOMAIN cachedPapers = PaperIds
  /\ Len(context) = 1
  /\ context[1].paperId = "p3" /\ context[1].label = 1

\* ------------------------------------------------ services/gemini.ts: getAi
\* getAi(apiKey) throws when no client for that key exists and the key is empty
GetAiThrows(apiKey) == ~(ai /\ activeApiKey = apiKey) /\ apiKey = ""

\* otherwise it returns the client for apiKey, building it when needed
GetAi(apiKey) ==
  IF ai /\ activeApiKey = apiKey
  THEN UNCHANGED <<ai, activeApiKey>>
  ELSE ai' = TRUE /\ activeApiKey' = apiKey

\* ---------------------------------------------------- handleGenerateSection
SectionTypes == {"introduction", "relatedWorks"}

MsgNoTopic == "Please search for a topic first."
MsgNoContext == "No papers available to provide context."
MsgNoKey(provider) == "API key for " \o provider \o " is not set."
MsgNoModel(provider) == "Model for " \o provider \o " is not selected."

GenerationApiKey ==
  IF generationProvider = GEMINI THEN apiKeys.gemini ELSE apiKeys.openRouter

GenerationModel ==
  IF generationProvider = GEMINI THEN selectedGeminiModel ELSE selectedOpenRouterModel

ValidateGenerateKeyFirst(topic, ctx, apiKey, modelToUse, provider) ==
  IF topic = "" THEN MsgNoTopic
  ELSE IF apiKey = "" THEN MsgNoKey(provider)
  ELSE IF ctx = <<>> THEN MsgNoContext
  ELSE IF modelToUse = "" THEN MsgNoModel(provider)
  ELSE Null

\* the four early returns, in the order of the code; Null when all pass
ValidateGenerate(topic, ctx, apiKey, modelToUse, provider) ==
  IF topic = "" THEN MsgNoTopic
  ELSE IF ctx = <<>> THEN MsgNoContext
  ELSE IF apiKey = "" THEN MsgNoKey(provider)
  ELSE IF modelToUse = "" THEN MsgNoModel(provider)
  ELSE Null

\* the text a provider returns for a request, and the message of its failure
GeneratedText(req) == "text for " \o req.topic
ProviderError(req) == req.provider \o " API error"

HandleGenerateSectionKeepsError(sectionType) ==
  LET ctx == getContextFromSelectedPapers(selectedPaperIds, papers,
                                          cachedPapers, wordBudget)
      apiKey == GenerationApiKey
      modelToUse == GenerationModel
      failed == ValidateGenerate(researchTopic, ctx, apiKey, modelToUse,
                                 generationProvider)
  IN IF failed # Null
     THEN /\ lastAlert' = failed
          /\ UNCHANGED <<storeVars, ctxVars, cfgVars, generationLoading,
                         slotVars, genPending, aiVars, chatVars>>
     ELSE /\ Len(genPending) < MaxInFlight
          /\ generationLoading' = TRUE
          /\ IF sectionType = "introduction"
             THEN /\ introError' = introError
                  /\ introContent' = ""
                  /\ introGrounding' = Undefined
                  /\ UNCHANGED <<relatedWorksError, relatedWorksContent,
                                 relatedWorksGrounding>>
             ELSE /\ relatedWorksError' = relatedWorksError
                  /\ relatedWorksContent' = ""
                  /\ relatedWorksGrounding' = Undefined
                  /\ UNCHANGED <<introError, introContent, introGrounding>>
          /\ IF generationProvider = GEMINI
             THEN GetAi(apiKey)
             ELSE UNCHANGED aiVars
          /\ genPending' = Append(genPending,
               [sectionType |-> sectionType, provider |-> generationProvider,
                topic |-> researchTopic, model |-> modelToUse, apiKey |-> apiKey])
          /\ UNCHANGED <<storeVars, ctxVars, cfgVars, lastAlert, chatVars>>

\* the synchronous part of handleGenerateSection, up to the await
HandleGenerateSection(sectionType) ==
  LET ctx == getContextFromSelectedPapers(selectedPaperIds, papers,
                                          cachedPapers, wordBudget)
      apiKey == GenerationApiKey
      modelToUse == GenerationModel
      failed == ValidateGenerate(researchTopic, ctx, apiKey, modelToUse,
                                 generationProvider)
  IN IF failed # Null
     THEN /\ lastAlert' = failed
          /\ UNCHANGED <<storeVars, ctxVars, cfgVars, generationLoading,
                         slotVars, genPending, aiVars, chatVars>>
     ELSE /\ Len(genPending) < MaxInFlight
          /\ generationLoading' = TRUE
          /\ IF sectionType = "introduction"
             THEN /\ introError' = Null
                  /\ introContent' = ""
                  /\ introGrounding' = Undefined
                  /\ UNCHANGED <<relatedWorksError, relatedWorksContent,
                                 relatedWorksGrounding>>
             ELSE /\ relatedWorksError' = Null
                  /\ relatedWorksContent' = ""
                  /\ relatedWorksGrounding' = Undefined
                  /\ UNCHANGED <<introError, introContent, introGrounding>>
          /\ IF generationProvider = GEMINI
             THEN GetAi(apiKey)
             ELSE UNCHANGED aiVars
          /\ genPending' = Append(genPending,
               [sectionType |-> sectionType, provider |-> generationProvider,
                topic |-> researchTopic, model |-> modelToUse, apiKey |-> apiKey])
          /\ UNCHANGED <<storeVars, ctxVars, cfgVars, lastAlert, chatVars>>

RemoveAt(seq, i) == SubSeq(seq, 1, i - 1) \o SubSeq(seq, i + 1, Len(seq))

GenerateSettleKeepsLoading(i, ok) ==
  /\ i \in 1..Len(genPending)
  /\ LET req == genPending[i]
     IN /\ IF ok
           THEN IF req.sectionType = "introduction"
                THEN /\ introContent' = GeneratedText(req)
                     /\ introGrounding' = Undefined
                     /\ UNCHANGED <<introError, relatedWorksContent,
                                    relatedWorksGrounding, relatedWorksError>>
                ELSE /\ relatedWorksContent' = GeneratedText(req)
                     /\ relatedWorksGrounding' = Undefined
                     /\ UNCHANGED <<relatedWorksError, introContent,
                                    introGrounding, introError>>
           ELSE IF req.sectionType = "introduction"
                THEN /\ introError' = ProviderError(req)
                     /\ UNCHANGED <<introContent, introGrounding,
                                    relatedWorksContent, relatedWorksGrounding,
                                    relatedWorksError>>
                ELSE /\ relatedWorksError' = ProviderError(req)
                     /\ UNCHANGED <<relatedWorksContent, relatedWorksGrounding,
                                    introContent, introGrounding, introError>>
        /\ generationLoading' = ~ok
        /\ genPending' = RemoveAt(genPending, i)
  /\ UNCHANGED <<storeVars, ctxVars, cfgVars, lastAlert, aiVars, chatVars>>

\* the provider answers request i: the rest of the try, the catch, the finally
GenerateSettle(i, ok) ==
  /\ i \in 1..Len(genPending)
  /\ LET req == genPending[i]
     IN /\ IF ok
           THEN IF req.sectionType = "introduction"
                THEN /\ introContent' = GeneratedText(req)
                     /\ introGrounding' = Undefined
                     /\ UNCHANGED <<introError, relatedWorksContent,
                                    relatedWorksGrounding, relatedWorksError>>
                ELSE /\ relatedWorksContent' = GeneratedText(req)
                     /\ relatedWorksGrounding' = Undefined
                     /\ UNCHANGED <<relatedWorksError, introContent,
                                    introGrounding, introError>>
           ELSE IF req.sectionType = "introduction"
                THEN /\ introError' = ProviderError(req)
                     /\ UNCHANGED <<introContent, introGrounding,
                                    relatedWorksContent, relatedWorksGrounding,
                                    relatedWorksError>>
                ELSE /\ relatedWorksError' = ProviderError(req)
                     /\ UNCHANGED <<relatedWorksContent, relatedWorksGrounding,
                                    introContent, introGrounding, introError>>
        /\ generationLoading' = FALSE
        /\ genPending' = RemoveAt(genPending, i)
  /\ UNCHANGED <<storeVars, ctxVars, cfgVars, lastAlert, aiVars, chatVars>>

\* ------------------------------- the orchestrator, called in any app state
GenKeys == {"", "k1"}
GenModels == {"", "m1"}
Topics == {"", "t1"}

\* a slot as an earlier attempt left it: untouched, done, or failed
SlotStates ==
  { [content |-> "", grounding |-> Undefined, error |-> Null],
    [content |-> "old text", grounding |-> "chunks", error |-> Null],
    [content |-> "", grounding |-> Undefined, error |-> "old error"] }

InitGen ==
  /\ selectedPaperIds \in SeqsUpTo({"p1", "p2"}, 1)
  /\ papers \in SeqsUpTo(PagePool, MaxPage)
  /\ cachedPapers \in {f \in CacheMaps : DOMAIN f \subseteq {"p1"}}
  /\ wordBudget = MaxBudget
  /\ FetchIdle
  /\ CtxIdle
  /\ researchTopic \in Topics
  /\ \E g \in GenKeys, o \in GenKeys :
       apiKeys = [semanticScholar |-> "", gemini |-> g, openRouter |-> o]
  /\ generationProvider \in Providers
  /\ selectedGeminiModel \in GenModels
  /\ selectedOpenRouterModel \in GenModels
  /\ generationLoading = FALSE
  /\ \E a \in SlotStates, b \in SlotStates :
       /\ introContent = a.content /\ introGrounding = a.grounding
       /\ introError = a.error
       /\ relatedWorksContent = b.content /\ relatedWorksGrounding = b.grounding
       /\ relatedWorksError = b.error
  /\ lastAlert = Null
  /\ genPending = <<>>
  /\ AiNone
  /\ ChatIdle

NextGen ==
  \/ \E st \in SectionTypes : HandleGenerateSection(st)
  \/ \E i \in 1..MaxInFlight, ok \in BOOLEAN : GenerateSettle(i, ok)

SpecGen == InitGen /\ [][NextGen]_vars

\* ----------------------------------------------- claims on the orchestrator
\* C5: generate checks topic, context, API key, model in that order, reports
\* the message of the first that fails, issues no remote call and leaves the
\* slots and the loading flag as they were; a request is dispatched only
\* when all four hold.
C5_ValidationOrder ==
  [][ LET ctxNow == getContextFromSelectedPapers(selectedPaperIds, papers,
                                                 cachedPapers, wordBudget)
      IN /\ (lastAlert' # lastAlert =>
               /\ genPending' = genPending
               /\ UNCHANGED <<slotVars, generationLoading, aiVars>>
               /\ \/ researchTopic = "" /\ lastAlert' = MsgNoTopic
                  \/ /\ researchTopic # "" /\ ctxNow = <<>>
                     /\ lastAlert' = MsgNoContext
                  \/ /\ researchTopic # "" /\ ctxNow # <<>>
                     /\ GenerationApiKey = ""
                     /\ lastAlert' = "API key for " \o generationProvider \o " is not set."
                  \/ /\ researchTopic # "" /\ ctxNow # <<>>
                     /\ GenerationApiKey # "" /\ GenerationModel = ""
                     /\ lastAlert' = "Model for " \o generationProvider \o " is not selected.")
         /\ (Len(genPending') > Len(genPending) =>
               /\ researchTopic # "" /\ ctxNow # <<>>
               /\ GenerationApiKey # "" /\ GenerationModel # ""
               /\ lastAlert' = lastAlert) ]_vars

\* a topic and a context but neither key nor model: the key message is shown,
\* nothing is in flight and the slot filled earlier still holds its text
C5_Witness ==
  /\ researchTopic # ""
  /\ getContextFromSelectedPapers(selectedPaperIds, papers, cachedPapers,
                                  wordBudget) # <<>>
  /\ GenerationApiKey = "" /\ GenerationModel = ""
  /\ lastAlert = "API key for " \o generationProvider \o " is not set."
  /\ genPending = <<>>
  /\ introContent = "old text"
  /\ generationLoading = FALSE

\* ------------------------------------------------------- conversation turns
\* A turn of either provider's history is kept as [role, text]: Gemini's
\* Content {role, parts: [{text}]}, OpenRouter's message {role, content}.
Turn(role, text) == [role |-> role, text |-> text]

\* the n-th message typed into the chat, and a provider's reply to it: the
\* reply names the model that produced it
UserText(n) == "q" \o ToString(n)
ReplyText(userMessage, model) == "reply to " \o userMessage \o " by " \o model

\* --------------------------- services/gemini.ts: startOrContinueChatWithGemini
ReuseChatIgnoringModel(inst, storedKey, storedSys, storedModel, apiKey, sys, model) ==
  ~(inst = 0 \/ storedKey # apiKey \/ storedSys # sys)

\* the negation of the condition that guards chats.create
ReuseChat(inst, storedKey, storedSys, storedModel, apiKey, sys, model) ==
  ~(inst = 0 \/ storedKey # apiKey \/ storedSys # sys \/ storedModel # model)

\* a call record: the arguments of the call, the Chat it goes through (0 for
\* OpenRouter), messagesForApi (OpenRouter) and the messages handed to the
\* remote API
Call(provider, apiKey, userMessage, history, model, sys, handle, forApi, sent) ==
  [provider |-> provider, apiKey |-> apiKey, userMessage |-> userMessage,
   history |-> history, model |-> model, systemInstruction |-> sys,
   handle |-> handle, messagesForApi |-> forApi, sent |-> sent]

\* A Chat object stays in `chats` while the module variable or a pending
\* call refers to it; an object nothing refers to is garbage.
Live(cs, inst, pending) ==
  [h \in {k \in DOMAIN cs :
            k = inst \/ \E i \in 1..Len(pending) : pending[i].handle = k}
     |-> cs[h]]

\* ai.chats.create({model, history, config})
NewChat(apiKey, model, sys, history) ==
  [apiKey |-> apiKey, model |-> model, systemInstruction |-> sys,
   history |-> history, authFailed |-> FALSE]

\* the part up to `await geminiChatInstance.sendMessage(...)`, for a key that
\* getAi accepts
GeminiSend(apiKey, userMessage, history, model, sys) ==
  LET reuse == ReuseChat(geminiChatInstance, chatApiKey, chatSystemInstruction,
                         chatModelUsed, apiKey, sys, model)
      handle == IF reuse THEN geminiChatInstance ELSE turnNo + 1
      chatHistory == IF reuse THEN chats[handle].history ELSE history
  IN /\ GetAi(apiKey)
     /\ IF reuse
        THEN UNCHANGED sessionVars
        ELSE /\ chats' = Live([h \in DOMAIN chats \cup {handle} |->
                                 IF h = handle
                                 THEN NewChat(apiKey, model, sys, history)
                                 ELSE chats[h]],
                              handle, chatPending)
             /\ geminiChatInstance' = handle
             /\ chatApiKey' = apiKey
             /\ chatSystemInstruction' = sys
             /\ chatModelUsed' = model
     /\ chatPending' = Append(chatPending,
          Call(GEMINI, apiKey, userMessage, history, model, sys, handle, <<>>,
               Append(chatHistory, Turn("user", userMessage))))

GeminiCatchKeepsSession(apiKeyNotValid) ==
  UNCHANGED <<ai, activeApiKey, geminiChatInstance, chatApiKey, chatModelUsed,
              chatSystemInstruction>>

\* the catch block: an "API key not valid" message clears the client and the
\* session (chatSystemInstruction is not assigned)
GeminiCatch(apiKeyNotValid) ==
  IF apiKeyNotValid
  THEN /\ ai' = FALSE
       /\ activeApiKey' = Null
       /\ geminiChatInstance' = 0
       /\ chatApiKey' = Null
       /\ chatModelUsed' = Null
       /\ UNCHANGED chatSystemInstruction
  ELSE UNCHANGED <<ai, activeApiKey, geminiChatInstance, chatApiKey,
                   chatModelUsed, chatSystemInstruction>>

Outcomes == {"ok", "auth", "other"}

GeminiErrorMessage(outcome) ==
  IF outcome = "auth" THEN "Gemini Chat API error: API key not valid"
  ELSE "Gemini Chat API error: Unknown error"

GeminiUpdatedHistory(req) ==
  req.history \o <<Turn("user", req.userMessage),
                   Turn("model", ReplyText(req.userMessage, req.model))>>

\* what the call returns (kind "ok") or throws (kind "error")
GeminiResult(req, outcome) ==
  IF outcome = "ok"
  THEN [kind |-> "ok", text |-> ReplyText(req.userMessage, req.model),
        updatedHistory |-> GeminiUpdatedHistory(req), call |-> req]
  ELSE [kind |-> "error", text |-> GeminiErrorMessage(outcome),
        updatedHistory |-> <<>>, call |-> req]

\* sendMessage settles: the Chat records the exchange when it succeeds
GeminiSettle(req, outcome) ==
  LET others == RemoveAt(chatPending, CHOOSE i \in 1..Len(chatPending) :
                                        chatPending[i] = req)
  IN IF outcome = "ok"
     THEN /\ chats' = Live([chats EXCEPT ![req.handle].history =
                         @ \o <<Turn("user", req.userMessage),
                                Turn("model", ReplyText(req.userMessage, req.model))>>],
                           geminiChatInstance, others)
          /\ UNCHANGED <<ai, activeApiKey, geminiChatInstance, chatApiKey,
                         chatModelUsed, chatSystemInstruction>>
     ELSE /\ GeminiCatch(outcome = "auth")
          /\ chats' = Live([chats EXCEPT ![req.handle].authFailed =
                              @ \/ outcome = "auth"],
                           geminiChatInstance', others)

\* resetGeminiChat()
ResetGeminiChat ==
  /\ geminiChatInstance' = 0
  /\ chatApiKey' = Null
  /\ chatSystemInstruction' = Null
  /\ chatModelUsed' = Null
  /\ chats' = Live(chats, 0, chatPending)

\* ------------------------------------ services/openrouter.ts: chatWithOpenRouter
HasSystem(history) == \E i \in 1..Len(history) : history[i].role = "system"

Given(systemInstruction) ==
  systemInstruction # Undefined /\ systemInstruction # ""

MessagesForApiAlwaysSystem(userMessage, currentHistory, systemInstruction) ==
  (IF Given(systemInstruction)
   THEN <<Turn("system", systemInstruction)>> ELSE <<>>)
  \o currentHistory \o <<Turn("user", userMessage)>>

MessagesForApi(userMessage, currentHistory, systemInstruction) ==
  (IF Given(systemInstruction) /\ ~HasSystem(currentHistory)
   THEN <<Turn("system", systemInstruction)>> ELSE <<>>)
  \o currentHistory \o <<Turn("user", userMessage)>>

\* generateTextWithOpenRouter: the messages of the request body
OpenRouterMessages(prompt, systemInstruction, history) ==
  (IF Given(systemInstruction)
   THEN <<Turn("system", systemInstruction)>> ELSE <<>>)
  \o history \o <<Turn("user", prompt)>>

OpenRouterSend(apiKey, userMessage, currentHistory, model, sys) ==
  /\ chatPending' = Append(chatPending,
       Call(OPENROUTER, apiKey, userMessage, currentHistory, model, sys, 0,
            MessagesForApi(userMessage, currentHistory, sys),
            OpenRouterMessages(userMessage, Undefined, currentHistory)))
  /\ UNCHANGED <<aiVars, sessionVars>>

OpenRouterResult(req, outcome) ==
  IF outcome = "ok"
  THEN [kind |-> "ok", text |-> ReplyText(req.userMessage, req.model),
        updatedHistory |->
          Append(req.messagesForApi,
                 Turn("assistant", ReplyText(req.userMessage, req.model))),
        call |-> req]
  ELSE [kind |-> "error", text |-> "OpenRouter API error: request failed",
        updatedHistory |-> <<>>, call |-> req]

ChatResult(req, outcome) ==
  IF req.provider = GEMINI THEN GeminiResult(req, outcome)
  ELSE OpenRouterResult(req, outcome)

\* ------------------------------------------------------------ the paper store
SearchKeys == {"", "s1"}
PageNumbers == {1, 2}

\* what the paper index can answer to a page request ({papers, total}) and to
\* a fetch of all papers of a topic: nothing, one paper, two papers of which
\* one is a changed version of a paper fetched before, a list that repeats
\* an id
P1 == MkPaper("p1", 10, 2020, 1, 1, 1, TRUE, 1)
P1Changed == MkPaper("p1", 50, 2020, 1, 2, 0, FALSE, 1)
P3 == MkPaper("p3", 0, 2021, 2, 1, 1, TRUE, 1)

Totals == {0, 2}

PageResponses ==
  { [papers |-> <<>>, total |-> 0],
    [papers |-> <<>>, total |-> 2],
    [papers |-> <<P1>>, total |-> 2],
    [papers |-> <<P1Changed, P3>>, total |-> 2] }

AllResponses == { <<>>, <<P1, P3>>, <<P1, P1Changed>> }

MergeCacheFromEmpty(prevCache, list) ==
  [id \in {list[i].paperId : i \in 1..Len(list)} |->
     list[CHOOSE i \in 1..Len(list) :
            /\ list[i].paperId = id
            /\ \A j \in (i + 1)..Len(list) : list[j].paperId # id]]

\* newCache = new Map(prevCache); list.forEach(p => newCache.set(p.paperId, p))
RECURSIVE MergeCache(_, _)
MergeCache(prevCache, list) ==
  IF list = <<>> THEN prevCache
  ELSE LET p == Head(list)
           newCache == [id \in DOMAIN prevCache \cup {p.paperId} |->
                          IF id = p.paperId THEN p ELSE prevCache[id]]
       IN MergeCache(newCache, Tail(list))

FetchRequest(kind, topic, page) == [kind |-> kind, topic |-> topic, page |-> page]

\* fetchPapersForPage up to the await (or to the early return), with the
\* key of the render it runs in
FetchPapersForPage(key, topic, page) ==
  IF key = ""
  THEN /\ searchError' = "Semantic Scholar API key is not set."
       /\ papers' = <<>>
       /\ totalPapers' = 0
       /\ UNCHANGED <<searchLoading, fetchPending>>
  ELSE /\ Len(fetchPending) < MaxFetches
       /\ searchLoading' = TRUE
       /\ searchError' = Null
       /\ fetchPending' = Append(fetchPending, FetchRequest("page", topic, page))
       /\ UNCHANGED <<papers, totalPapers>>

\* the effect on [researchTopic, apiKeys.semanticScholar, currentPage]
FetchEffectFires(topic, key, page, total, loading) ==
  topic # "" /\ key # "" /\ Len(page) = 0 /\ total = 0 /\ ~loading

\* handleSearch up to the await in fetchPapersForPage. The effect on
\* researchTopic does not fire: with a key the fetch has set searchLoading,
\* without one the effect's condition is false.
HandleSearch(topic) ==
  /\ researchTopic' = topic
  /\ selectedPaperIds' = <<>>
  /\ introContent' = "" /\ relatedWorksContent' = ""
  /\ introGrounding' = Undefined /\ relatedWorksGrounding' = Undefined
  /\ cachedPapers' = <<>>
  /\ FetchPapersForPage(apiKeys.semanticScholar, topic, 1)
  /\ toggled' = <<>> /\ selBefore' = <<>>
  /\ UNCHANGED <<wordBudget, currentPage, selectingAllPapersLoading, ctxVars,
                 cfgVars, generationLoading, introError, relatedWorksError,
                 lastAlert, genPending, aiVars, chatVars>>

\* PaperListDisplay is rendered
PaperListDisplayed ==
  \/ Len(papers) > 0 \/ searchLoading \/ searchError # Null
  \/ totalPapers > 0 \/ researchTopic # ""

HandlePageChange(newPage) ==
  /\ PaperListDisplayed
  /\ researchTopic # ""
  /\ FetchPapersForPage(apiKeys.semanticScholar, researchTopic, newPage)
  /\ UNCHANGED <<selectedPaperIds, cachedPapers, wordBudget, researchTopic,
                 currentPage, selectingAllPapersLoading, toggleVars, ctxVars,
                 cfgVars, genVars, aiVars, chatVars>>

\* Set.delete / Set.add on new Set(prevArray), then Array.from
Without(arr, x) == SelectSeq(arr, LAMBDA y : y # x)

ToggleAddOnly(prevArray, paperId) ==
  LET newSet == NewSet(prevArray)
  IN IF \E i \in 1..Len(newSet) : newSet[i] = paperId
     THEN newSet
     ELSE Append(newSet, paperId)

Toggle(prevArray, paperId) ==
  LET newSet == NewSet(prevArray)
  IN IF \E i \in 1..Len(newSet) : newSet[i] = paperId
     THEN Without(newSet, paperId)
     ELSE Append(newSet, paperId)

\* toggleSelectPaper; `toggled` and `selBefore` follow the toggles of one id
\* made in a row
ToggleSelectPaper(paperId) ==
  /\ selectedPaperIds' = Toggle(selectedPaperIds, paperId)
  /\ IF toggled = <<paperId>>
     THEN toggled' = <<paperId, paperId>> /\ UNCHANGED selBefore
     ELSE toggled' = <<paperId>> /\ selBefore' = selectedPaperIds
  /\ UNCHANGED <<papers, cachedPapers, wordBudget, researchTopic, fetchVars,
                 ctxVars, cfgVars, genVars, aiVars, chatVars>>

RECURSIVE AddAll(_, _)
AddAll(newSet, ids) ==
  IF ids = <<>> THEN newSet
  ELSE AddAll(IF \E i \in 1..Len(newSet) : newSet[i] = Head(ids)
              THEN newSet ELSE Append(newSet, Head(ids)),
              Tail(ids))

HandleSelectAllOnPage ==
  /\ PaperListDisplayed
  /\ selectedPaperIds' = AddAll(NewSet(selectedPaperIds), PageIds(papers))
  /\ toggled' = <<>> /\ selBefore' = <<>>
  /\ UNCHANGED <<papers, cachedPapers, wordBudget, researchTopic, fetchVars,
                 ctxVars, cfgVars, genVars, aiVars, chatVars>>

HandleDeselectAllPapers ==
  /\ PaperListDisplayed
  /\ selectedPaperIds' = <<>>
  /\ toggled' = <<>> /\ selBefore' = <<>>
  /\ UNCHANGED <<papers, cachedPapers, wordBudget, researchTopic, fetchVars,
                 ctxVars, cfgVars, genVars, aiVars, chatVars>>

\* handleSelectAllAcrossPages up to the await (or to the early return)
HandleSelectAllAcrossPages ==
  /\ PaperListDisplayed
  /\ IF researchTopic = "" \/ apiKeys.semanticScholar = ""
     THEN /\ searchError' =
               "Cannot select all papers without a topic and Semantic Scholar API key."
          /\ UNCHANGED <<selectingAllPapersLoading, fetchPending>>
     ELSE /\ Len(fetchPending) < MaxFetches
          /\ selectingAllPapersLoading' = TRUE
          /\ searchError' = Null
          /\ fetchPending' = Append(fetchPending,
                                    FetchRequest("all", researchTopic, 0))
  /\ UNCHANGED <<selectedPaperIds, papers, cachedPapers, wordBudget,
                 researchTopic, searchLoading, currentPage, totalPapers,
                 toggleVars, ctxVars, cfgVars, genVars, aiVars, chatVars>>

\* setSelectedPaperIds(allFoundPapers.map(p => p.paperId))
SelectAllFound(allFoundPapers) == PageIds(allFoundPapers)

\* the page request settles: the rest of the try, the catch, the finally, and
\* the effect when currentPage changed
FetchPageSettle(i, ok, response) ==
  /\ i \in 1..Len(fetchPending)
  /\ fetchPending[i].kind = "page"
  /\ LET req == fetchPending[i]
         rest == RemoveAt(fetchPending, i)
     IN IF ok
        THEN /\ papers' = response.papers
             /\ totalPapers' = response.total
             /\ currentPage' = req.page
             /\ cachedPapers' = MergeCache(cachedPapers, response.papers)
             /\ IF /\ req.page # currentPage
                   /\ FetchEffectFires(researchTopic, apiKeys.semanticScholar,
                                       response.papers, response.total, FALSE)
                THEN /\ searchLoading' = TRUE
                     /\ searchError' = Null
                     /\ fetchPending' = Append(rest,
                          FetchRequest("page", researchTopic, req.page))
                ELSE /\ searchLoading' = FALSE
                     /\ fetchPending' = rest
                     /\ UNCHANGED searchError
        ELSE /\ searchError' = "Failed to fetch papers."
             /\ papers' = <<>>
             /\ totalPapers' = 0
             /\ searchLoading' = FALSE
             /\ fetchPending' = rest
             /\ UNCHANGED <<currentPage, cachedPapers>>
  /\ UNCHANGED <<selectedPaperIds, wordBudget, researchTopic,
                 selectingAllPapersLoading, toggleVars, ctxVars, cfgVars,
                 genVars, aiVars, chatVars>>

\* fetchAllPapersForTopic settles
FetchAllSettle(i, ok, allFoundPapers) ==
  /\ i \in 1..Len(fetchPending)
  /\ fetchPending[i].kind = "all"
  /\ IF ok
     THEN /\ cachedPapers' = MergeCache(cachedPapers, allFoundPapers)
          /\ selectedPaperIds' = SelectAllFound(allFoundPapers)
          /\ toggled' = <<>> /\ selBefore' = <<>>
          /\ UNCHANGED searchError
     ELSE /\ searchError' = "Failed to fetch all papers."
          /\ UNCHANGED <<cachedPapers, selectedPaperIds, toggleVars>>
  /\ selectingAllPapersLoading' = FALSE
  /\ fetchPending' = RemoveAt(fetchPending, i)
  /\ UNCHANGED <<papers, wordBudget, researchTopic, searchLoading, currentPage,
                 totalPapers, ctxVars, cfgVars, genVars, aiVars, chatVars>>

\* ------------------------------------------------------ the App's chat side
ChatKeys == {"", "k1", "k2"}
OpenRouterKeys == {"", "k1"}
AvailableModels == {"m1", "m2"}
ChatSystemInstruction == "You are a helpful AI assistant"

IsApiKeySet(provider) ==
  IF provider = GEMINI THEN apiKeys.gemini # "" ELSE apiKeys.openRouter # ""

SelectedModel(provider) ==
  IF provider = GEMINI THEN selectedGeminiModel ELSE selectedOpenRouterModel

StoredHistory(provider) ==
  IF provider = GEMINI THEN geminiChatHistory ELSE openRouterChatHistory

Message(sender, text) == [sender |-> sender, text |-> text]

\* handleSendMessage up to the await (or to the early return)
HandleSendMessage(messageText, provider, model) ==
  LET apiKey == IF provider = GEMINI THEN apiKeys.gemini ELSE apiKeys.openRouter
      errorMsg == IF apiKey = "" THEN "API key for " \o provider \o " is not set."
                  ELSE "Model for " \o provider \o " is not selected."
  IN /\ turnNo < MaxTurns
     /\ turnNo' = turnNo + 1
     /\ IF apiKey = "" \/ model = ""
        THEN /\ chatMessages' = chatMessages \o
                  <<Message("user", messageText),
                    Message("ai", "Error: " \o errorMsg)>>
             /\ chatError' = errorMsg
             /\ chatLoading' = FALSE
             /\ UNCHANGED <<aiVars, sessionVars, chatPending>>
        ELSE /\ chatMessages' = Append(chatMessages, Message("user", messageText))
             /\ chatLoading' = TRUE
             /\ chatError' = Null
             /\ IF provider = GEMINI
                THEN GeminiSend(apiKey, messageText, geminiChatHistory, model,
                                ChatSystemInstruction)
                ELSE OpenRouterSend(apiKey, messageText, openRouterChatHistory,
                                    model, ChatSystemInstruction)
     /\ UNCHANGED <<storeVars, ctxVars, cfgVars, genVars, historyVars,
                    chatProvider, chatReturn>>

CanSendWhileLoading(loading, keySet, currentModel) ==
  keySet /\ currentModel # ""

\* ChatWindow.handleSend: the condition under which onSendMessage is called
CanSend(loading, keySet, currentModel) ==
  ~loading /\ keySet /\ currentModel # ""

ChatWindowHandleSend ==
  /\ CanSend(chatLoading, IsApiKeySet(chatProvider), SelectedModel(chatProvider))
  /\ HandleSendMessage(UserText(turnNo + 1), chatProvider,
                       SelectedModel(chatProvider))

HandleSendSettleSilent(i, outcome) ==
  /\ i \in 1..Len(chatPending)
  /\ LET req == chatPending[i]
         res == ChatResult(req, outcome)
     IN /\ IF req.provider = GEMINI
           THEN GeminiSettle(req, outcome)
           ELSE UNCHANGED <<aiVars, sessionVars>>
        /\ IF res.kind = "ok"
           THEN /\ IF req.provider = GEMINI
                   THEN /\ geminiChatHistory' = res.updatedHistory
                        /\ UNCHANGED openRouterChatHistory
                   ELSE /\ openRouterChatHistory' = res.updatedHistory
                        /\ UNCHANGED geminiChatHistory
                /\ turnStored' = [turnStored EXCEPT ![req.provider] = res.updatedHistory]
                /\ chatMessages' = Append(chatMessages, Message("ai", res.text))
                /\ UNCHANGED chatError
           ELSE /\ chatError' = res.text
                /\ UNCHANGED <<chatMessages, historyVars>>
        /\ chatLoading' = FALSE
        /\ chatPending' = RemoveAt(chatPending, i)
  /\ UNCHANGED <<storeVars, ctxVars, cfgVars, genVars, chatProvider, turnNo,
                 chatReturn>>

\* the awaited call settles: the rest of the try, the catch, the finally
HandleSendSettle(i, outcome) ==
  /\ i \in 1..Len(chatPending)
  /\ LET req == chatPending[i]
         res == ChatResult(req, outcome)
     IN /\ IF req.provider = GEMINI
           THEN GeminiSettle(req, outcome)
           ELSE UNCHANGED <<aiVars, sessionVars>>
        /\ IF res.kind = "ok"
           THEN /\ IF req.provider = GEMINI
                   THEN /\ geminiChatHistory' = res.updatedHistory
                        /\ UNCHANGED openRouterChatHistory
                   ELSE /\ openRouterChatHistory' = res.updatedHistory
                        /\ UNCHANGED geminiChatHistory
                /\ turnStored' = [turnStored EXCEPT ![req.provider] = res.updatedHistory]
                /\ chatMessages' = Append(chatMessages, Message("ai", res.text))
                /\ UNCHANGED chatError
           ELSE /\ chatError' = res.text
                /\ chatMessages' = Append(chatMessages,
                                          Message("ai", "Error: " \o res.text))
                /\ UNCHANGED historyVars
        /\ chatLoading' = FALSE
        /\ chatPending' = RemoveAt(chatPending, i)
  /\ UNCHANGED <<storeVars, ctxVars, cfgVars, genVars, chatProvider, turnNo,
                 chatReturn>>

\* handleApiKeyChange, and for the paper index key the effect on
\* [researchTopic, apiKeys.semanticScholar, currentPage]
HandleApiKeyChange(name, value) ==
  /\ value # apiKeys[name]
  /\ apiKeys' = [apiKeys EXCEPT ![name] = value]
  /\ IF name = "gemini"
     THEN /\ ResetGeminiChat
          /\ geminiChatHistory' = <<>>
          /\ UNCHANGED openRouterChatHistory
     ELSE IF name = "openRouter"
     THEN /\ openRouterChatHistory' = <<>>
          /\ UNCHANGED <<geminiChatHistory, sessionVars>>
     ELSE UNCHANGED <<geminiChatHistory, openRouterChatHistory, sessionVars>>
  /\ IF /\ name = "semanticScholar"
        /\ FetchEffectFires(researchTopic, value, papers, totalPapers, searchLoading)
     THEN /\ FetchPapersForPage(value, researchTopic, currentPage)
          /\ UNCHANGED <<selectedPaperIds, cachedPapers, wordBudget, researchTopic,
                         currentPage, selectingAllPapersLoading, toggleVars>>
     ELSE UNCHANGED storeVars
  /\ UNCHANGED <<ctxVars, generationProvider, selectedGeminiModel,
                 selectedOpenRouterModel, genVars, aiVars, turnStored,
                 chatUiVars, callVars>>

\* a model select is on screen and enabled in SectionGeneratorControls or in
\* ChatWindow
ModelSelectEnabled(provider) ==
  /\ IsApiKeySet(provider)
  /\ \/ generationProvider = provider /\ ~generationLoading
     \/ chatProvider = provider /\ ~chatLoading

HandleSelectedGeminiModelChange(model) ==
  /\ ModelSelectEnabled(GEMINI)
  /\ model # selectedGeminiModel
  /\ selectedGeminiModel' = model
  /\ ResetGeminiChat
  /\ geminiChatHistory' = <<>>
  /\ UNCHANGED <<storeVars, ctxVars, apiKeys, generationProvider,
                 selectedOpenRouterModel, genVars, aiVars,
                 openRouterChatHistory, turnStored, chatUiVars, callVars>>

HandleSelectedOpenRouterModelChange(model) ==
  /\ ModelSelectEnabled(OPENROUTER)
  /\ model # selectedOpenRouterModel
  /\ selectedOpenRouterModel' = model
  /\ openRouterChatHistory' = <<>>
  /\ UNCHANGED <<storeVars, ctxVars, apiKeys, generationProvider,
                 selectedGeminiModel, genVars, aiVars, sessionVars,
                 geminiChatHistory, turnStored, chatUiVars, callVars>>

\* ChatWindow's provider select, and the effect on [chatProvider,
\* selectedGeminiModel] that follows the render
SetChatProvider(provider) ==
  /\ ~chatLoading
  /\ provider # chatProvider
  /\ chatProvider' = provider
  /\ IF provider = GEMINI THEN ResetGeminiChat ELSE UNCHANGED sessionVars
  /\ UNCHANGED <<storeVars, ctxVars, cfgVars, genVars, aiVars, historyVars,
                 chatMessages, chatLoading, chatError, callVars>>

\* SectionGeneratorControls' provider select
SetGenerationProvider(provider) ==
  /\ ~generationLoading
  /\ provider # generationProvider
  /\ generationProvider' = provider
  /\ UNCHANGED <<storeVars, ctxVars, apiKeys, selectedGeminiModel,
                 selectedOpenRouterModel, genVars, aiVars, chatVars>>

StoreIdle ==
  /\ selectedPaperIds = <<>> /\ papers = <<>>
  /\ cachedPapers = <<>>
  /\ wordBudget = MaxBudget
  /\ researchTopic = ""
  /\ FetchIdle

InitChat ==
  /\ StoreIdle /\ CtxIdle /\ CfgDefault /\ GenIdle /\ AiNone /\ ChatIdle

NextChat ==
  \/ ChatWindowHandleSend
  \/ \E i \in 1..MaxInFlight, outcome \in Outcomes : HandleSendSettle(i, outcome)
  \/ \E value \in ChatKeys : HandleApiKeyChange("gemini", value)
  \/ \E value \in OpenRouterKeys : HandleApiKeyChange("openRouter", value)
  \/ \E model \in AvailableModels : HandleSelectedGeminiModelChange(model)
  \/ \E model \in AvailableModels : HandleSelectedOpenRouterModelChange(model)
  \/ \E provider \in Providers : SetChatProvider(provider)
  \/ \E provider \in Providers : SetGenerationProvider(provider)

SpecChat == InitChat /\ [][NextChat]_vars

\* ------------------------------------ the two chat services, called directly
\* A caller that awaits each call, passes the history it keeps (or none) and
\* stores the updatedHistory it gets back.
SystemInstructions == {Undefined, ChatSystemInstruction}

Thrown(provider, apiKey, userMessage, history, model, sys, message) ==
  [kind |-> "error", text |-> message, updatedHistory |-> <<>>,
   call |-> Call(provider, apiKey, userMessage, history, model, sys, 0, <<>>, <<>>)]

SvcGeminiTurn(apiKey, history, model, sys) ==
  /\ chatPending = <<>>
  /\ turnNo < MaxTurns
  /\ turnNo' = turnNo + 1
  /\ IF GetAiThrows(apiKey)
     THEN /\ chatReturn' = Thrown(GEMINI, apiKey, UserText(turnNo + 1), history,
                                  model, sys, "Gemini API key is not set.")
          /\ UNCHANGED <<aiVars, sessionVars, chatPending>>
     ELSE /\ GeminiSend(apiKey, UserText(turnNo + 1), history, model, sys)
          /\ UNCHANGED chatReturn
  /\ UNCHANGED <<storeVars, ctxVars, cfgVars, genVars, historyVars, chatUiVars>>

SvcOpenRouterTurn(apiKey, history, model, sys) ==
  /\ chatPending = <<>>
  /\ turnNo < MaxTurns
  /\ turnNo' = turnNo + 1
  /\ IF apiKey = ""
     THEN /\ chatReturn' = Thrown(OPENROUTER, apiKey, UserText(turnNo + 1),
                                  history, model, sys,
                                  "OpenRouter API key is not set.")
          /\ UNCHANGED <<aiVars, sessionVars, chatPending>>
     ELSE /\ OpenRouterSend(apiKey, UserText(turnNo + 1), history, model, sys)
          /\ UNCHANGED chatReturn
  /\ UNCHANGED <<storeVars, ctxVars, cfgVars, genVars, historyVars, chatUiVars>>

SvcSettle(outcome) ==
  /\ chatPending # <<>>
  /\ LET req == chatPending[1]
         res == ChatResult(req, outcome)
     IN /\ IF req.provider = GEMINI
           THEN GeminiSettle(req, outcome)
           ELSE UNCHANGED <<aiVars, sessionVars>>
        /\ chatReturn' = res
        /\ IF res.kind = "ok"
           THEN /\ IF req.provider = GEMINI
                   THEN /\ geminiChatHistory' = res.updatedHistory
                        /\ UNCHANGED openRouterChatHistory
                   ELSE /\ openRouterChatHistory' = res.updatedHistory
                        /\ UNCHANGED geminiChatHistory
                /\ turnStored' = [turnStored EXCEPT ![req.provider] = res.updatedHistory]
           ELSE UNCHANGED historyVars
        /\ chatPending' = Tail(chatPending)
  /\ UNCHANGED <<storeVars, ctxVars, cfgVars, genVars, chatUiVars, turnNo>>

SvcResetGeminiChat ==
  /\ geminiChatInstance # 0
  /\ ResetGeminiChat
  /\ UNCHANGED <<storeVars, ctxVars, cfgVars, genVars, aiVars, historyVars,
                 chatUiVars, callVars>>

InitSvc == InitChat

NextSvc ==
  \/ \E apiKey \in ChatKeys, model \in AvailableModels, sys \in SystemInstructions,
        history \in {geminiChatHistory, <<>>} :
       SvcGeminiTurn(apiKey, history, model, sys)
  \/ \E apiKey \in OpenRouterKeys, model \in AvailableModels,
        sys \in SystemInstructions, history \in {openRouterChatHistory, <<>>} :
       SvcOpenRouterTurn(apiKey, history, model, sys)
  \/ \E outcome \in Outcomes : SvcSettle(outcome)
  \/ SvcResetGeminiChat

SpecSvc == InitSvc /\ [][NextSvc]_vars

\* ------------------------------------------------- claims on the chat services
NewestCall == chatPending'[Len(chatPending')]

SameConfig(req) ==
  /\ geminiChatInstance # 0
  /\ chatApiKey = req.apiKey
  /\ chatModelUsed = req.model
  /\ chatSystemInstruction = req.systemInstruction

\* C6: a Gemini turn goes through the existing Chat if and only if one exists
\* and the stored key, model and system instruction all equal the turn's;
\* otherwise the old Chat is dropped, a new one is created from the history
\* passed in and the stored configuration becomes the turn's. A turn that
\* follows a successful turn of the same configuration on the Chat still in
\* place goes through that Chat, whose history still ends with that exchange.
C6_ReuseIffSameConfig ==
  [][ (Len(chatPending') > Len(chatPending) /\ NewestCall.provider = GEMINI) =>
        LET req == NewestCall
        IN /\ SameConfig(req) =>
                /\ req.handle = geminiChatInstance
                /\ geminiChatInstance' = geminiChatInstance
                /\ chats'[req.handle] = chats[req.handle]
                /\ UNCHANGED <<chatApiKey, chatModelUsed, chatSystemInstruction>>
           /\ ~SameConfig(req) =>
                /\ req.handle \notin DOMAIN chats
                /\ geminiChatInstance' = req.handle
                /\ chats'[req.handle].history = req.history
                /\ chatApiKey' = req.apiKey
                /\ chatModelUsed' = req.model
                /\ chatSystemInstruction' = req.systemInstruction
                /\ geminiChatInstance \notin DOMAIN chats'
           /\ (/\ chatReturn.kind = "ok"
               /\ chatReturn.call.provider = GEMINI
               /\ chatReturn.call.handle = geminiChatInstance
               /\ chatReturn.call.apiKey = req.apiKey
               /\ chatReturn.call.model = req.model
               /\ chatReturn.call.systemInstruction = req.systemInstruction) =>
                /\ req.handle = chatReturn.call.handle
                /\ LET h == chats'[req.handle].history
                   IN /\ Len(h) >= 2
                      /\ h[Len(h) - 1] = Turn("user", chatReturn.call.userMessage)
                      /\ h[Len(h)] = Turn("model", chatReturn.text) ]_vars

\* the second of two turns of one configuration is in flight on the Chat the
\* first went through
C6_Witness ==
  /\ Len(chatPending) = 1
  /\ chatPending[1].provider = GEMINI
  /\ chatReturn.kind = "ok"
  /\ chatReturn.call.provider = GEMINI
  /\ chatPending[1].handle = chatReturn.call.handle
  /\ chatPending[1].model = chatReturn.call.model
  /\ Len(chats[chatPending[1].handle].history) >= 2

\* C8: a Chat on which a turn failed with an authentication error is never
\* used by a later turn (in particular not by one sent with another key).
C8_FailedHandleNeverReused ==
  \A i \in 1..Len(chatPending) :
    chatPending[i].provider = GEMINI => ~chats[chatPending[i].handle].authFailed

\* the turn before failed for its key; the turn in flight carries another key
\* and goes through another Chat
C8_Witness ==
  /\ chatReturn.kind = "error"
  /\ chatReturn.text = GeminiErrorMessage("auth")
  /\ Len(chatPending) = 1
  /\ chatPending[1].provider = GEMINI
  /\ chatPending[1].apiKey # chatReturn.call.apiKey
  /\ chatPending[1].handle # chatReturn.call.handle

ReplyRole(provider) == IF provider = GEMINI THEN "model" ELSE "assistant"

TwoTurns(res) ==
  <<Turn("user", res.call.userMessage),
    Turn(ReplyRole(res.call.provider), res.text)>>

\* C9 as stated: a successful turn of either provider returns the history
\* passed in followed by exactly the user turn and the assistant turn.
C9_AppendsTwoTurns ==
  chatReturn.kind = "ok" =>
    chatReturn.updatedHistory = chatReturn.call.history \o TwoTurns(chatReturn)

SystemPrefix(call) ==
  IF /\ call.provider = OPENROUTER
     /\ call.systemInstruction \notin {Undefined, ""}
     /\ \A i \in 1..Len(call.history) : call.history[i].role # "system"
  THEN <<Turn("system", call.systemInstruction)>>
  ELSE <<>>

\* C9 amended: as stated for Gemini; for OpenRouter the returned history is
\* the history passed in, preceded by a system turn when a system instruction
\* is supplied and the history holds no system turn, followed by exactly the
\* user turn and the assistant turn.
C9_AppendsTwoTurnsAfterSystem ==
  chatReturn.kind = "ok" =>
    chatReturn.updatedHistory =
      SystemPrefix(chatReturn.call) \o chatReturn.call.history \o TwoTurns(chatReturn)

\* a second OpenRouter turn: the history passed in already holds the system
\* turn and exactly two turns are added to it
C9_Witness ==
  /\ chatReturn.kind = "ok"
  /\ chatReturn.call.provider = OPENROUTER
  /\ chatReturn.call.systemInstruction = ChatSystemInstruction
  /\ Len(chatReturn.call.history) = 3
  /\ chatReturn.call.history[1].role = "system"
  /\ Len(chatReturn.updatedHistory) = 5

\* -------------------------------------------------- claims on the App's chat
RepliesBy(model) == {ReplyText(UserText(n), model) : n \in 1..MaxTurns}

OnlyRepliesBy(history, model) ==
  \A i \in 1..Len(history) :
    history[i].role \in {"model", "assistant"} => history[i].text \in RepliesBy(model)

\* C7: a chat turn never runs on a history that holds a reply produced under
\* another model than the one it is sent to: after a model change the next
\* turn of that provider starts from an empty history.
C7_FreshAfterModelChange ==
  \A i \in 1..Len(chatPending) :
    /\ OnlyRepliesBy(chatPending[i].history, chatPending[i].model)
    /\ OnlyRepliesBy(chatPending[i].sent, chatPending[i].model)

\* C10 as stated: at most one turn is in flight and its request was built
\* from the history stored by the provider's preceding completed turn.
C10_StrictOrder ==
  /\ Len(chatPending) <= 1
  /\ \A i \in 1..Len(chatPending) :
       chatPending[i].history = turnStored[chatPending[i].provider]

\* C10 amended: at most one turn is in flight; its request was built from the
\* history stored by the provider's last successful turn or from the empty
\* history a key or model change left since; and the stored history is still
\* the one the request was built from unless such a change emptied it.
C10_StrictOrderUpToReset ==
  /\ Len(chatPending) <= 1
  /\ \A i \in 1..Len(chatPending) :
       LET req == chatPending[i]
       IN /\ req.history \in {turnStored[req.provider], <<>>}
          /\ StoredHistory(req.provider) \in {req.history, <<>>}

\* a second turn in flight, built from what the first stored
C10_Witness ==
  /\ Len(chatPending) = 1
  /\ turnStored[chatPending[1].provider] # <<>>
  /\ chatPending[1].history = turnStored[chatPending[1].provider]
  /\ chatLoading

\* ------------------------------- handleSendMessage, called with any arguments
\* onSendMessage invoked with every provider and model value, the empty model
\* included, and without ChatWindow's guard
SendModels == AvailableModels \cup {""}

SendDirect(provider, model) ==
  HandleSendMessage(UserText(turnNo + 1), provider, model)

InitSend == InitChat

NextSend ==
  \/ \E provider \in Providers, model \in SendModels : SendDirect(provider, model)
  \/ \E i \in 1..MaxInFlight, outcome \in Outcomes : HandleSendSettle(i, outcome)
  \/ \E value \in ChatKeys : HandleApiKeyChange("gemini", value)
  \/ \E value \in OpenRouterKeys : HandleApiKeyChange("openRouter", value)

SpecSend == InitSend /\ [][NextSend]_vars

\* the texts handleSendMessage can put in chatError
ChatErrorTexts ==
  {"API key for " \o p \o " is not set." : p \in Providers}
  \cup {"Model for " \o p \o " is not selected." : p \in Providers}
  \cup {GeminiErrorMessage(o) : o \in Outcomes \ {"ok"}}
  \cup {"OpenRouter API error: request failed"}

C11_SendStep ==
  turnNo' = turnNo + 1 =>
    LET user == Message("user", UserText(turnNo + 1))
    IN \/ /\ Len(chatPending') = Len(chatPending) + 1
          /\ chatMessages' = Append(chatMessages, user)
          /\ chatPending'[Len(chatPending')].userMessage = UserText(turnNo + 1)
          /\ chatPending'[Len(chatPending')].apiKey # ""
          /\ chatPending'[Len(chatPending')].model # ""
       \/ /\ chatPending' = chatPending
          /\ chatError' \in ChatErrorTexts
          /\ chatMessages' = chatMessages \o
               <<user, Message("ai", "Error: " \o chatError')>>
          /\ chatLoading' = FALSE
          /\ geminiChatHistory' = geminiChatHistory
          /\ openRouterChatHistory' = openRouterChatHistory

C11_SettleStep ==
  Len(chatPending') < Len(chatPending) =>
    \E i \in 1..Len(chatPending) :
      LET req == chatPending[i]
      IN /\ chatPending' = RemoveAt(chatPending, i)
         /\ chatLoading' = FALSE
         /\ \/ /\ chatMessages' = Append(chatMessages,
                      Message("ai", ReplyText(req.userMessage, req.model)))
               /\ chatError' = chatError
            \/ /\ chatError' \in ChatErrorTexts
               /\ chatMessages' = Append(chatMessages,
                      Message("ai", "Error: " \o chatError'))
               /\ geminiChatHistory' = geminiChatHistory
               /\ openRouterChatHistory' = openRouterChatHistory

\* C11: every send appends the user's message and, when the turn ends,
\* exactly one AI message: the reply, or "Error: ..." on a missing key or
\* model or on a remote failure; a failure sets chatError, leaves both stored
\* histories as they were and ends with chatLoading false. The transcript
\* holds two messages per ended turn and one per turn in flight, and changes
\* in no other step.
C11_OneAiMessagePerSend ==
  /\ [](Len(chatMessages) = 2 * turnNo - Len(chatPending))
  /\ [][/\ C11_SendStep
        /\ C11_SettleStep
        /\ (turnNo' = turnNo /\ Len(chatPending') = Len(chatPending)
              => chatMessages' = chatMessages)]_vars

\* a send without a key answered at once, then a send whose remote call failed
C11_Witness ==
  /\ Len(chatMessages) = 4
  /\ chatMessages[1] = Message("user", "q1")
  /\ chatMessages[2] = Message("ai", "Error: API key for Gemini is not set.")
  /\ chatMessages[3] = Message("user", "q2")
  /\ chatMessages[4] = Message("ai", "Error: " \o GeminiErrorMessage("other"))
  /\ chatError = GeminiErrorMessage("other")
  /\ chatLoading = FALSE
  /\ chatPending = <<>>

\* ------------------------------------------------- the paper store, in use
\* what localStorage can hold of the selection at start-up
PersistedSelections == {<<>>, <<"p1">>}

\* the state after mount: the persisted values, an empty page and cache, and
\* the fetch the effect starts when its condition holds
InitStore ==
  /\ selectedPaperIds \in PersistedSelections
  /\ papers = <<>>
  /\ cachedPapers = <<>>
  /\ wordBudget = MaxBudget
  /\ researchTopic \in Topics
  /\ \E s \in SearchKeys :
       apiKeys = [semanticScholar |-> s, gemini |-> "", openRouter |-> ""]
  /\ generationProvider = GEMINI
  /\ selectedGeminiModel = "m1" /\ selectedOpenRouterModel = "m1"
  /\ currentPage \in PageNumbers
  /\ totalPapers \in Totals
  /\ searchError = Null
  /\ selectingAllPapersLoading = FALSE
  /\ IF FetchEffectFires(researchTopic, apiKeys.semanticScholar, papers,
                         totalPapers, FALSE)
     THEN /\ searchLoading = TRUE
          /\ fetchPending = <<FetchRequest("page", researchTopic, currentPage)>>
     ELSE /\ searchLoading = FALSE
          /\ fetchPending = <<>>
  /\ toggled = <<>> /\ selBefore = <<>>
  /\ CtxIdle /\ GenIdle /\ AiNone /\ ChatIdle

NextStore ==
  \/ \E topic \in Topics : HandleSearch(topic)
  \/ \E newPage \in PageNumbers : HandlePageChange(newPage)
  \/ \E i \in 1..Len(papers) : ToggleSelectPaper(papers[i].paperId)
  \/ HandleSelectAllOnPage
  \/ HandleDeselectAllPapers
  \/ HandleSelectAllAcrossPages
  \/ \E i \in 1..MaxFetches, ok \in BOOLEAN, response \in PageResponses :
       FetchPageSettle(i, ok, response)
  \/ \E i \in 1..MaxFetches, ok \in BOOLEAN, allFoundPapers \in AllResponses :
       FetchAllSettle(i, ok, allFoundPapers)
  \/ \E value \in SearchKeys : HandleApiKeyChange("semanticScholar", value)

SpecStore == InitStore /\ [][NextStore]_vars

\* toggleSelectPaper called with any id on any stored selection
InitToggle ==
  /\ selectedPaperIds \in SeqsUpTo(PaperIds, MaxSel)
  /\ papers = <<>> /\ cachedPapers = <<>>
  /\ wordBudget = MaxBudget
  /\ researchTopic = ""
  /\ FetchIdle /\ CtxIdle /\ CfgDefault /\ GenIdle /\ AiNone /\ ChatIdle

NextToggle == \E paperId \in PaperIds : ToggleSelectPaper(paperId)

SpecToggle == InitToggle /\ [][NextToggle]_vars

\* -------------------------------------------------- claims on the paper store
\* C12: every paper id in the selection is present in the paper cache, in
\* every reachable state.
C12_SelectionInCache ==
  \A i \in 1..Len(selectedPaperIds) : selectedPaperIds[i] \in DOMAIN cachedPapers

\* C13: two toggles of one id made in a row leave the membership of the
\* selection as it was before them, and one toggle changes the membership of
\* that id and of no other.
C13_DoubleToggle ==
  /\ Len(toggled) = 2 => Range(selectedPaperIds) = Range(selBefore)
  /\ Len(toggled) = 1 =>
       /\ (toggled[1] \in Range(selectedPaperIds)) # (toggled[1] \in Range(selBefore))
       /\ Range(selectedPaperIds) \ {toggled[1]} = Range(selBefore) \ {toggled[1]}

\* p2, in no cache, toggled twice on a stored selection that lists p1 twice
C13_Witness ==
  /\ toggled = <<"p2", "p2">>
  /\ selBefore = <<"p1", "p1">>
  /\ Range(selectedPaperIds) = {"p1"}
  /\ "p2" \notin DOMAIN cachedPapers

\* ------------------------------------- further claims on the context assembler
\* C14: the included papers are a prefix of the ranked candidate list, and
\* the first candidate left out is one that did not fit: after it none is
\* included, whether it would fit or not.
C14_TruncatesByRank ==
  ctxPc = "done" =>
    LET sorted == SortPapers(Candidates)
        k == Len(context)
    IN /\ k <= Len(sorted)
       /\ \A i \in 1..k : context[i].paperId = sorted[i].paperId
       /\ k < Len(sorted) =>
            SumSplit(SubSeq(sorted, 1, k)) + SplitLength(sorted[k + 1]) > wordBudget

\* three candidates: the first is included, the second does not fit, the
\* third would fit the remaining budget and is left out all the same
C14_Witness ==
  /\ ctxPc = "done"
  /\ Len(Candidates) = 3
  /\ Len(context) = 1
  /\ LET sorted == SortPapers(Candidates)
     IN /\ SplitLength(sorted[1]) + SplitLength(sorted[2]) > wordBudget
        /\ SplitLength(sorted[1]) + SplitLength(sorted[3]) <= wordBudget

\* C15: a ranked block is appended whenever the words counted so far plus the
\* block's own whitespace-delimited words do not exceed the budget: the
\* first candidate left out is one whose words, added to those of the blocks
\* included, exceed the budget.
C15_ExactFitIncluded ==
  ctxPc = "done" =>
    LET sorted == SortPapers(Candidates)
        k == Len(context)
    IN k < Len(sorted) =>
         SumWords(context) + BlockWords(sorted[k + 1]) > wordBudget

\* ------------------------------------------- further claims on the chat services
\* C16: when a Gemini turn fails with an authentication error the session is
\* left as resetGeminiChat leaves it: no handle, and the stored API key,
\* model and system instruction all cleared.
C16_AuthFailureResets ==
  [][(/\ Len(chatPending') < Len(chatPending)
      /\ chatReturn'.kind = "error"
      /\ chatReturn'.call.provider = GEMINI
      /\ chatReturn'.text = GeminiErrorMessage("auth"))
     => /\ geminiChatInstance' = 0
        /\ chatApiKey' = Null
        /\ chatModelUsed' = Null
        /\ chatSystemInstruction' = Null]_vars

\* ------------------------------------------ further claims on the orchestrator
Slot(sectionType) ==
  IF sectionType = "introduction"
  THEN [content |-> introContent, grounding |-> introGrounding, error |-> introError]
  ELSE [content |-> relatedWorksContent, grounding |-> relatedWorksGrounding,
        error |-> relatedWorksError]

\* the slot in the next state
SlotAfter(sectionType) ==
  IF sectionType = "introduction"
  THEN [content |-> introContent', grounding |-> introGrounding',
        error |-> introError']
  ELSE [content |-> relatedWorksContent', grounding |-> relatedWorksGrounding',
        error |-> relatedWorksError']

OtherSection(sectionType) ==
  IF sectionType = "introduction" THEN "relatedWorks" ELSE "introduction"

ClearedSlot == [content |-> "", grounding |-> Undefined, error |-> Null]

\* C17: an attempt that passes validation clears the requested slot's
\* content, grounding and error when it starts, whatever the slot held; when
\* it ends its text or its error goes to the requested slot; neither step
\* changes the other slot.
C17_SlotFrame ==
  [][/\ (Len(genPending') > Len(genPending) =>
          LET req == genPending'[Len(genPending')]
          IN /\ SlotAfter(req.sectionType) = ClearedSlot
             /\ SlotAfter(OtherSection(req.sectionType)) = Slot(OtherSection(req.sectionType)))
     /\ (Len(genPending') < Len(genPending) =>
          \E i \in 1..Len(genPending) :
            LET req == genPending[i]
                slot == Slot(req.sectionType)
            IN /\ genPending' = RemoveAt(genPending, i)
               /\ SlotAfter(OtherSection(req.sectionType)) = Slot(OtherSection(req.sectionType))
               /\ \/ SlotAfter(req.sectionType) =
                       [slot EXCEPT !.content = GeneratedText(req),
                                    !.grounding = Undefined]
                  \/ SlotAfter(req.sectionType) =
                       [slot EXCEPT !.error = ProviderError(req)])]_vars

\* an attempt at the related-works section in flight: its slot is cleared, the
\* introduction still holds what an earlier attempt left
C17_Witness ==
  /\ Len(genPending) = 1
  /\ genPending[1].sectionType = "relatedWorks"
  /\ generationLoading
  /\ Slot("relatedWorks") = ClearedSlot
  /\ Slot("introduction") = [content |-> "old text", grounding |-> "chunks",
                             error |-> Null]

\* ------------------------------------ generation through SectionGeneratorControls
\* canGenerateSections
CanGenerateSections ==
  /\ \/ Len(NewSet(selectedPaperIds)) > 0
     \/ /\ Len(papers) > 0
        /\ Len(NewSet(selectedPaperIds)) = 0
        /\ Cardinality(DOMAIN cachedPapers) > 0
  /\ researchTopic # ""
  /\ IsApiKeySet(generationProvider)
  /\ GenerationModel # ""

\* a generate button: disabled={loading || !canGenerate}
GenerateClick(sectionType) ==
  /\ ~generationLoading
  /\ CanGenerateSections
  /\ HandleGenerateSection(sectionType)

NextGenUi ==
  \/ \E st \in SectionTypes : GenerateClick(st)
  \/ \E i \in 1..MaxInFlight, ok \in BOOLEAN : GenerateSettle(i, ok)
  \/ \E provider \in Providers : SetGenerationProvider(provider)

\* the awaited provider call returns or throws
SpecGenUi ==
  /\ InitGen /\ [][NextGenUi]_vars
  /\ WF_vars(\E i \in 1..MaxInFlight, ok \in BOOLEAN : GenerateSettle(i, ok))

Generating(sectionType) ==
  \E i \in 1..Len(genPending) : genPending[i].sectionType = sectionType

Done(sectionType) ==
  /\ Slot(sectionType).content \in {GeneratedText([topic |-> t]) : t \in Topics}
  /\ Slot(sectionType).error = Null

Failed(sectionType) ==
  /\ Slot(sectionType).error \in {ProviderError([provider |-> p]) : p \in Providers}
  /\ Slot(sectionType).content = ""

\* C18: an attempt that passes validation puts its slot in generating with
\* the loading flag set; when its call returns or throws the slot is done
\* (the returned text stored, error null) or failed (the error stored) and
\* the loading flag is false; every attempt in generating gets there.
C18_SlotLifecycle ==
  /\ [](generationLoading <=> genPending # <<>>)
  /\ [][/\ (Len(genPending') > Len(genPending) =>
             /\ generationLoading'
             /\ SlotAfter(genPending'[Len(genPending')].sectionType) = ClearedSlot)
        /\ (Len(genPending') < Len(genPending) =>
             \E i \in 1..Len(genPending) :
               LET req == genPending[i]
               IN /\ generationLoading' = FALSE
                  /\ \/ /\ SlotAfter(req.sectionType).content = GeneratedText(req)
                        /\ SlotAfter(req.sectionType).error = Null
                     \/ /\ SlotAfter(req.sectionType).error = ProviderError(req)
                        /\ SlotAfter(req.sectionType).content = "")]_vars
  /\ \A st \in SectionTypes :
       Generating(st) ~> (/\ ~Generating(st) /\ ~generationLoading
                          /\ (Done(st) \/ Failed(st)))

\* both terminal states, reached by two attempts of this run: the
\* introduction done, the related works failed, nothing in flight
C18_Witness ==
  /\ genPending = <<>>
  /\ generationLoading = FALSE
  /\ Done("introduction")
  /\ Failed("relatedWorks")

\* -------------------------------------------- further claims on the paper store
\* C19: the selection holds no paper id more than once.
C19_SelectionUnique ==
  \A i, j \in 1..Len(selectedPaperIds) :
    i # j => selectedPaperIds[i] # selectedPaperIds[j]

Front(seq) == SubSeq(seq, 1, Len(seq) - 1)

\* C21: for every OpenRouter chat turn, the message list sent to the remote
\* API equals the returned updatedHistory without its final assistant
\* message; a system instruction that is supplied is part of the request on
\* the first turn of a conversation as well as on later turns.
C21_SentIsHistoryFront ==
  (chatReturn.kind = "ok" /\ chatReturn.call.provider = OPENROUTER) =>
    /\ chatReturn.call.sent = Front(chatReturn.updatedHistory)
    /\ Given(chatReturn.call.systemInstruction) => HasSystem(chatReturn.call.sent)

\* ------------------------------------------- searching and generating together
\* the topics typed into the search form
SearchTopics == {"t1", "t2"}

\* PaperSearchForm: onSearch={handleSearch},
\* loading={searchLoading || selectingAllPapersLoading}; the form submits
\* nothing while its loading prop is set. generationLoading is not part of
\* the prop.
SearchSubmit(topic) ==
  /\ ~(searchLoading \/ selectingAllPapersLoading)
  /\ HandleSearch(topic)

\* the state after mount: the persisted selection, topic and keys, an empty
\* page and cache, empty slots, and the fetch the effect starts
InitDraft ==
  /\ selectedPaperIds \in PersistedSelections
  /\ papers = <<>>
  /\ cachedPapers = <<>>
  /\ wordBudget = MaxBudget
  /\ researchTopic \in Topics
  /\ \E g \in GenKeys :
       apiKeys = [semanticScholar |-> "s1", gemini |-> g, openRouter |-> ""]
  /\ generationProvider = GEMINI
  /\ selectedGeminiModel = "m1" /\ selectedOpenRouterModel = "m1"
  /\ currentPage = 1
  /\ totalPapers = 0
  /\ searchError = Null
  /\ selectingAllPapersLoading = FALSE
  /\ IF FetchEffectFires(researchTopic, apiKeys.semanticScholar, papers,
                         totalPapers, FALSE)
     THEN /\ searchLoading = TRUE
          /\ fetchPending = <<FetchRequest("page", researchTopic, currentPage)>>
     ELSE /\ searchLoading = FALSE
          /\ fetchPending = <<>>
  /\ toggled = <<>> /\ selBefore = <<>>
  /\ CtxIdle /\ GenIdle /\ AiNone /\ ChatIdle

NextDraft ==
  \/ \E topic \in SearchTopics : SearchSubmit(topic)
  \/ \E i \in 1..MaxFetches, ok \in BOOLEAN, response \in PageResponses :
       FetchPageSettle(i, ok, response)
  \/ \E i \in 1..Len(papers) : ToggleSelectPaper(papers[i].paperId)
  \/ HandleDeselectAllPapers
  \/ \E st \in SectionTypes : GenerateClick(st)
  \/ \E i \in 1..MaxInFlight, ok \in BOOLEAN : GenerateSettle(i, ok)

SpecDraft == InitDraft /\ [][NextDraft]_vars

\* C22: after a new search has cleared the generated sections, both slots'
\* content stays empty until a generation started after that search
\* completes: a generation in flight when the search was issued never writes
\* text produced for the previous topic into a slot. Every text in a slot is
\* therefore a text generated for the topic of the last search.
C22_NoTextOfPreviousTopic ==
  \A st \in SectionTypes :
    Slot(st).content # "" =>
      Slot(st).content = GeneratedText([topic |-> researchTopic])

\* C23: whenever the generate buttons are enabled (canGenerateSections is
\* true and no generation is loading), invoking generate passes every
\* validation check and dispatches a remote call: the topic is non-empty, the
\* assembled context is non-empty, the key is present and a model is
\* selected.
C23_EnabledImpliesValid ==
  (CanGenerateSections /\ ~generationLoading) =>
    ValidateGenerate(researchTopic,
                     getContextFromSelectedPapers(selectedPaperIds, papers,
                                                  cachedPapers, wordBudget),
                     GenerationApiKey, GenerationModel, generationProvider) = Null
====
